---- MODULE Spec2Model ----
(***************************************************************************)
(* Streamlette: the Core message graph (src/src/core.rs), the messages     *)
(* (src/src/msg.rs), the Decider driver (src/src/consensus.rs) and the     *)
(* mock synchronisation of src/src/bin/slette-test/main.rs.                *)
(*                                                                         *)
(* Cryptography is modelled ideally.  A canonical hash is the tuple of the *)
(* hashed fields (the message with its signature blanked), so two hashes   *)
(* are equal exactly when the hashed contents are.  A signature by key k   *)
(* over hash h is the pair <<k, h>>; every other byte string fails to      *)
(* verify.  Key pairs are numbered: secret key k has public key k.         *)
(* The XOR of a set of distinct vote hashes is modelled as that set (the   *)
(* symmetric difference is the XOR of the free Z2-module over hashes).     *)
(***************************************************************************)
EXTENDS Integers, Sequences, FiniteSets, TLC

VARIABLES
  vote_map,   \* Core.vote_map: public key -> weight (same for every Core of the instance)
  leader,     \* Core.tick_to_leader, tabulated: tick -> public key
  cores,      \* id -> Core (valid_proposals, vote_solicits, votes, tick_source, cell)
  max_tick,   \* the Arc<AtomicU64> cells: cell id -> value
  past,       \* MockConfig.past_participants: id -> Option<Core>
  tick,       \* Decider.tick per participant
  decision,   \* Decider.decision per participant: Option<body>
  byz,        \* the participants that are not honest Deciders
  phase,      \* position of each driver loop (main_inner, tick_to_end)
  ret         \* what the last pre_tick / post_tick returned

vars == <<vote_map, leader, cores, max_tick, past, tick, decision, byz, phase, ret>>

(***************************************************************************)
(* Bounds of the model.                                                    *)
(***************************************************************************)
MaxTick == 2        \* largest tick carried by an offered Proposal or Solicit
NumBodies == 2      \* distinct proposal bodies
MaxNodes == 3       \* Proposals + Solicits a Core holds in the Core-level specification
MaxVotes == 2       \* Votes a Core holds in the Core-level specification

Nonce == 0          \* MockConfig::seed
InitMaxTick == 1         \* Core::new
ConsecutiveTicks == 3    \* the window of get_finalized

Bodies == 1..NumBodies
Ticks == 0..MaxTick
None == <<>>
Some(x) == <<x>>

(***************************************************************************)
(* msg.rs                                                                  *)
(***************************************************************************)
Sign(sk, h) == <<sk, h>>
BadSig == <<>>
to_public(sk) == sk
verify(pk, h, sig) == sig = Sign(pk, h)

chash_p(p) == <<"P", p.nonce, p.tick, p.body, p.source>>
chash_s(s) == <<"S", s.nonce, s.tick, s.previous, s.source>>
chash_v(v) == <<"V", v.nonce, v.voting_for, v.source>>

verify_sig_p(p) == verify(p.source, chash_p(p), p.signature)
verify_sig_s(s) == verify(s.source, chash_s(s), s.signature)
verify_sig_v(v) == verify(v.source, chash_v(v), v.signature)

ProposalNew(nonce, t, body, my_sk) ==
  LET template == [nonce |-> nonce, tick |-> t, body |-> body,
                   source |-> to_public(my_sk), signature |-> BadSig]
  IN [template EXCEPT !.signature = Sign(my_sk, chash_p(template))]

SolicitNew(nonce, t, previous, my_sk) ==
  LET template == [nonce |-> nonce, tick |-> t, previous |-> previous,
                   source |-> to_public(my_sk), signature |-> BadSig]
  IN [template EXCEPT !.signature = Sign(my_sk, chash_s(template))]

VoteNew(nonce, voting_for, my_sk) ==
  LET template == [nonce |-> nonce, voting_for |-> voting_for,
                   source |-> to_public(my_sk), signature |-> BadSig]
  IN [template EXCEPT !.signature = Sign(my_sk, chash_v(template))]

(***************************************************************************)
(* The order of HashVal (the key order of the BTreeMaps).  A hash is       *)
(* flattened to a sequence of numbers and sequences compare                *)
(* lexicographically.                                                      *)
(***************************************************************************)
RECURSIVE Flat(_)
Flat(h) ==
  IF h[1] = "P" THEN <<0, h[5], h[3], h[4], h[2]>>
  ELSE IF h[1] = "S" THEN <<1, h[5], h[3], h[2]>> \o Flat(h[4])
  ELSE <<2, h[4], h[2]>> \o Flat(h[3])

RECURSIVE SeqLess(_, _)
SeqLess(a, b) ==
  IF a = <<>> THEN b # <<>>
  ELSE IF b = <<>> THEN FALSE
  ELSE IF a[1] # b[1] THEN a[1] < b[1]
  ELSE SeqLess(Tail(a), Tail(b))

HashLT(a, b) == SeqLess(Flat(a), Flat(b))

RECURSIVE InsertSorted(_, _)
InsertSorted(x, s) ==
  IF s = <<>> THEN <<x>>
  ELSE IF HashLT(x, Head(s)) THEN <<x>> \o s
  ELSE <<Head(s)>> \o InsertSorted(x, Tail(s))

\* The hashes of S in ascending order.
RECURSIVE SortHashes(_)
SortHashes(S) ==
  IF S = {} THEN <<>>
  ELSE LET x == CHOOSE y \in S : TRUE IN InsertSorted(x, SortHashes(S \ {x}))

Range(f) == {f[x] : x \in DOMAIN f}
Put(f, k, v) == [x \in DOMAIN f \cup {k} |-> IF x = k THEN v ELSE f[x]]
EmptyMap == [x \in {} |-> 0]

(***************************************************************************)
(* core.rs                                                                 *)
(***************************************************************************)
CoreNew(id) ==
  [valid_proposals |-> EmptyMap, vote_solicits |-> EmptyMap, votes |-> EmptyMap,
   tick_source |-> {}, cell |-> id]

tick_to_leader(t) == leader[t]

RECURSIVE SumWeights(_)
SumWeights(vs) ==
  IF vs = {} THEN 0
  ELSE LET v == CHOOSE x \in vs : TRUE
       IN (IF v.source \in DOMAIN vote_map THEN vote_map[v.source] ELSE 0)
          + SumWeights(vs \ {v})

RECURSIVE SumMap(_, _)
SumMap(f, D) ==
  IF D = {} THEN 0 ELSE LET k == CHOOSE x \in D : TRUE IN f[k] + SumMap(f, D \ {k})

total_votes == SumMap(vote_map, DOMAIN vote_map)

NodeHashes(c) == DOMAIN c.valid_proposals \cup DOMAIN c.vote_solicits

VotesFor(c, h) == {c.votes[k] : k \in {x \in DOMAIN c.votes : c.votes[x].voting_for = h}}

\* is_notarized counting one per Vote instead of the weight of its source.
is_notarized_by_count(c, h) == Cardinality(VotesFor(c, h)) > (total_votes * 2) \div 3

is_notarized(c, h) == SumWeights(VotesFor(c, h)) > (total_votes * 2) \div 3

RECURSIVE lookup_len(_, _)
lookup_len(c, h) ==
  IF h \in DOMAIN c.valid_proposals THEN 0
  ELSE IF h \in DOMAIN c.vote_solicits THEN lookup_len(c, c.vote_solicits[h].previous) + 1
  ELSE 0

\* The steps of get_lnc_tips: the notarized keys with their lengths, sorted by
\* length (any order among equal lengths gives the same result), reversed, cut after
\* the entries of the first length, and sorted by hash.
RECURSIVE HashAndLen(_, _)
HashAndLen(c, hs) ==
  IF hs = <<>> THEN <<>>
  ELSE (IF is_notarized(c, Head(hs)) THEN <<<<Head(hs), lookup_len(c, Head(hs))>>>> ELSE <<>>)
       \o HashAndLen(c, Tail(hs))

RECURSIVE InsertByLen(_, _)
InsertByLen(x, s) ==
  IF s = <<>> THEN <<x>>
  ELSE IF x[2] < Head(s)[2] THEN <<x>> \o s
  ELSE <<Head(s)>> \o InsertByLen(x, Tail(s))

RECURSIVE SortByLen(_)
SortByLen(s) == IF s = <<>> THEN <<>> ELSE InsertByLen(Head(s), SortByLen(Tail(s)))

Reverse(s) == [k \in 1..Len(s) |-> s[Len(s) + 1 - k]]

RECURSIVE TakeWhileLen(_, _)
TakeWhileLen(s, n) ==
  IF s = <<>> \/ Head(s)[2] # n THEN <<>> ELSE <<Head(s)[1]>> \o TakeWhileLen(Tail(s), n)

\* get_lnc_tips without the reverse of the sorted list.
get_lnc_tips_no_reverse(c) ==
  LET hash_and_len ==
        SortByLen(HashAndLen(c, SortHashes(DOMAIN c.valid_proposals)
                                  \o SortHashes(DOMAIN c.vote_solicits)))
  IN IF hash_and_len = <<>> THEN <<>>
     ELSE LET taken == TakeWhileLen(hash_and_len, hash_and_len[1][2])
          IN SortHashes({taken[k] : k \in 1..Len(taken)})

get_lnc_tips(c) ==
  LET hash_and_len ==
        Reverse(SortByLen(HashAndLen(c, SortHashes(DOMAIN c.valid_proposals)
                                          \o SortHashes(DOMAIN c.vote_solicits))))
  IN IF hash_and_len = <<>> THEN <<>>
     ELSE LET taken == TakeWhileLen(hash_and_len, hash_and_len[1][2])
          IN SortHashes({taken[k] : k \in 1..Len(taken)})

SeqToSet(s) == {s[i] : i \in 1..Len(s)}

\* The loop of get_finalized for one tip: the ticks met and the root, None when the
\* chain dangles.
RECURSIVE WalkBack(_, _, _)
WalkBack(c, tip_ptr, tick_numbers) ==
  IF tip_ptr \in DOMAIN c.vote_solicits
    THEN WalkBack(c, c.vote_solicits[tip_ptr].previous,
                  Append(tick_numbers, c.vote_solicits[tip_ptr].tick))
  ELSE IF tip_ptr \in DOMAIN c.valid_proposals
    THEN [ticks |-> Append(tick_numbers, c.valid_proposals[tip_ptr].tick),
          tr |-> Some(c.valid_proposals[tip_ptr]), panic |-> FALSE]
  ELSE [ticks |-> tick_numbers, tr |-> None, panic |-> TRUE]

\* The window test of get_finalized over four ticks instead of three.
FourConsecutive(tn) ==
  \E i \in 1..(Len(tn) - 3) :
    tn[i] = tn[i + 1] + 1 /\ tn[i + 1] = tn[i + 2] + 1 /\ tn[i + 2] = tn[i + 3] + 1

ThreeConsecutive(tn) ==
  \E i \in 1..(Len(tn) - 2) : tn[i] = tn[i + 1] + 1 /\ tn[i + 1] = tn[i + 2] + 1

TipWalk(c, tip) == WalkBack(c, tip, <<c.vote_solicits[tip].tick>>)

RECURSIVE FirstFinal(_, _)
FirstFinal(c, tips) ==
  IF tips = <<>> THEN [tr |-> None, panic |-> FALSE]
  ELSE LET w == TipWalk(c, Head(tips))
       IN IF w.panic THEN [tr |-> None, panic |-> TRUE]
          ELSE IF ThreeConsecutive(w.ticks) THEN [tr |-> w.tr, panic |-> FALSE]
          ELSE FirstFinal(c, Tail(tips))

\* get_finalized walking back from every Solicit instead of the notarized tips.
get_finalized_any_solicit(c) == FirstFinal(c, SortHashes(DOMAIN c.vote_solicits))

get_finalized_run(c) ==
  LET lnc == SeqToSet(get_lnc_tips(c))
      notarized_tips == SortHashes({h \in DOMAIN c.vote_solicits : h \in lnc})
  IN FirstFinal(c, notarized_tips)

get_finalized(c) == get_finalized_run(c).tr

Result(c, r) == [core |-> c, res |-> r]
IsErr(r) == r \notin {"Ok", "Unit", "Init"}

\* insert_proposal without the (tick, source) guard.
insert_proposal_no_guard(c, prop) ==
  IF ~verify_sig_p(prop) /\ tick_to_leader(prop.tick) = prop.source
    THEN Result(c, "BadSignature")
  ELSE IF prop.nonce # Nonce THEN Result(c, "BadNonce")
  ELSE IF prop.tick > max_tick[c.cell] THEN Result(c, "TickBeyondHorizon")
  ELSE Result([c EXCEPT !.tick_source = @ \cup {<<prop.tick, prop.source>>},
                        !.valid_proposals = Put(@, chash_p(prop), prop)], "Ok")

\* insert_proposal recording the (tick, source) pair before the horizon check.
insert_proposal_early_mark(c, prop) ==
  IF ~verify_sig_p(prop) /\ tick_to_leader(prop.tick) = prop.source
    THEN Result(c, "BadSignature")
  ELSE IF prop.nonce # Nonce THEN Result(c, "BadNonce")
  ELSE IF <<prop.tick, prop.source>> \in c.tick_source THEN Result(c, "Equivocation")
  ELSE IF prop.tick > max_tick[c.cell]
    THEN Result([c EXCEPT !.tick_source = @ \cup {<<prop.tick, prop.source>>}],
                "TickBeyondHorizon")
  ELSE Result([c EXCEPT !.tick_source = @ \cup {<<prop.tick, prop.source>>},
                        !.valid_proposals = Put(@, chash_p(prop), prop)], "Ok")

\* insert_proposal without the check of the tick against max_tick.
insert_proposal_no_horizon(c, prop) ==
  IF ~verify_sig_p(prop) /\ tick_to_leader(prop.tick) = prop.source
    THEN Result(c, "BadSignature")
  ELSE IF prop.nonce # Nonce THEN Result(c, "BadNonce")
  ELSE IF <<prop.tick, prop.source>> \in c.tick_source THEN Result(c, "Equivocation")
  ELSE Result([c EXCEPT !.tick_source = @ \cup {<<prop.tick, prop.source>>},
                        !.valid_proposals = Put(@, chash_p(prop), prop)], "Ok")

insert_proposal(c, prop) ==
  IF ~verify_sig_p(prop) /\ tick_to_leader(prop.tick) = prop.source
    THEN Result(c, "BadSignature")
  ELSE IF prop.nonce # Nonce THEN Result(c, "BadNonce")
  ELSE IF prop.tick > max_tick[c.cell] THEN Result(c, "TickBeyondHorizon")
  ELSE IF <<prop.tick, prop.source>> \in c.tick_source THEN Result(c, "Equivocation")
  ELSE Result([c EXCEPT !.tick_source = @ \cup {<<prop.tick, prop.source>>},
                        !.valid_proposals = Put(@, chash_p(prop), prop)], "Ok")

\* insert_vote without the check that the target is held.
insert_vote_no_target(c, vote) ==
  IF ~verify_sig_v(vote) THEN Result(c, "BadSignature")
  ELSE IF vote.nonce # Nonce THEN Result(c, "BadNonce")
  ELSE Result([c EXCEPT !.votes = Put(@, chash_v(vote), vote)], "Ok")

insert_vote(c, vote) ==
  IF ~verify_sig_v(vote) THEN Result(c, "BadSignature")
  ELSE IF vote.nonce # Nonce THEN Result(c, "BadNonce")
  ELSE IF vote.voting_for \notin DOMAIN c.vote_solicits
          /\ vote.voting_for \notin DOMAIN c.valid_proposals
    THEN Result(c, "DanglingTarget")
  ELSE Result([c EXCEPT !.votes = Put(@, chash_v(vote), vote)], "Ok")

PreviousTick(c, h) ==
  IF h \in DOMAIN c.vote_solicits THEN c.vote_solicits[h].tick ELSE c.valid_proposals[h].tick

\* insert_solicit accepting a tick equal to its parent's, and recording the
\* (tick, source) pair before the parent is looked up.
insert_solicit_slack(c, solicit) ==
  IF ~verify_sig_s(solicit) /\ tick_to_leader(solicit.tick) = solicit.source
    THEN Result(c, "BadSignature")
  ELSE IF solicit.nonce # Nonce THEN Result(c, "BadNonce")
  ELSE IF solicit.tick > max_tick[c.cell] THEN Result(c, "TickBeyondHorizon")
  ELSE IF <<solicit.tick, solicit.source>> \in c.tick_source
    THEN Result(c, "Equivocation")
  ELSE IF solicit.previous \notin DOMAIN c.vote_solicits
          /\ solicit.previous \notin DOMAIN c.valid_proposals
    THEN Result([c EXCEPT !.tick_source = @ \cup {<<solicit.tick, solicit.source>>}],
                "DanglingParent")
  ELSE IF solicit.tick < PreviousTick(c, solicit.previous)
    THEN Result(c, "NonMonotonicTick")
  ELSE Result([c EXCEPT !.tick_source = @ \cup {<<solicit.tick, solicit.source>>},
                        !.vote_solicits = Put(@, chash_s(solicit), solicit)], "Ok")

\* insert_solicit looking up the parent before comparing the tick with max_tick.
insert_solicit_parent_first(c, solicit) ==
  IF ~verify_sig_s(solicit) /\ tick_to_leader(solicit.tick) = solicit.source
    THEN Result(c, "BadSignature")
  ELSE IF solicit.nonce # Nonce THEN Result(c, "BadNonce")
  ELSE IF solicit.previous \notin DOMAIN c.vote_solicits
          /\ solicit.previous \notin DOMAIN c.valid_proposals
    THEN Result(c, "DanglingParent")
  ELSE IF solicit.tick <= PreviousTick(c, solicit.previous)
    THEN Result(c, "NonMonotonicTick")
  ELSE IF solicit.tick > max_tick[c.cell] THEN Result(c, "TickBeyondHorizon")
  ELSE IF <<solicit.tick, solicit.source>> \in c.tick_source
    THEN Result(c, "Equivocation")
  ELSE Result([c EXCEPT !.tick_source = @ \cup {<<solicit.tick, solicit.source>>},
                        !.vote_solicits = Put(@, chash_s(solicit), solicit)], "Ok")

insert_solicit(c, solicit) ==
  IF ~verify_sig_s(solicit) /\ tick_to_leader(solicit.tick) = solicit.source
    THEN Result(c, "BadSignature")
  ELSE IF solicit.nonce # Nonce THEN Result(c, "BadNonce")
  ELSE IF solicit.tick > max_tick[c.cell] THEN Result(c, "TickBeyondHorizon")
  ELSE IF solicit.previous \notin DOMAIN c.vote_solicits
          /\ solicit.previous \notin DOMAIN c.valid_proposals
    THEN Result(c, "DanglingParent")
  ELSE IF solicit.tick <= PreviousTick(c, solicit.previous)
    THEN Result(c, "NonMonotonicTick")
  ELSE IF <<solicit.tick, solicit.source>> \in c.tick_source
    THEN Result(c, "Equivocation")
  ELSE Result([c EXCEPT !.tick_source = @ \cup {<<solicit.tick, solicit.source>>},
                        !.vote_solicits = Put(@, chash_s(solicit), solicit)], "Ok")

apply_one_diff(c, dmsg) ==
  IF dmsg.kind = "Proposal" THEN insert_proposal(c, dmsg.msg)
  ELSE IF dmsg.kind = "Solicit" THEN insert_solicit(c, dmsg.msg)
  ELSE insert_vote(c, dmsg.msg)

(***************************************************************************)
(* summary / get_diff                                                      *)
(***************************************************************************)
\* Core::summary: every node and every vote target, each with the XOR of the hashes
\* of the votes pointing to it (the set of those hashes; the XOR of no hash is
\* HashVal::default(), the empty set).
summary(c) ==
  [h \in NodeHashes(c) \cup {c.votes[k].voting_for : k \in DOMAIN c.votes} |->
     {k \in DOMAIN c.votes : c.votes[k].voting_for = h}]

\* HashVal values under XOR: a value is the set of the hashes XORed into it an odd
\* number of times, HashVal::default() is the empty set.
HashValDefault == {}
Xor(a, b) == (a \ b) \cup (b \ a)

\* The third loop of summary with the entry overwritten by the hash of the Vote.
RECURSIVE OverwriteVotes(_, _, _)
OverwriteVotes(c, toret, ks) ==
  IF ks = <<>> THEN toret
  ELSE OverwriteVotes(c, Put(toret, c.votes[Head(ks)].voting_for, {Head(ks)}), Tail(ks))

\* The third loop of summary: the hash of each Vote is XORed into the entry of its
\* target, the entry being made with HashVal::default() if missing.
RECURSIVE XorVotes(_, _, _)
XorVotes(c, toret, ks) ==
  IF ks = <<>> THEN toret
  ELSE LET t == c.votes[Head(ks)].voting_for
           xx == IF t \in DOMAIN toret THEN toret[t] ELSE HashValDefault
       IN XorVotes(c, Put(toret, t, Xor(xx, {Head(ks)})), Tail(ks))

\* Core::summary loop by loop; summary above is its closed form.
summary_run(c) ==
  XorVotes(c, [h \in DOMAIN c.valid_proposals \cup DOMAIN c.vote_solicits |-> HashValDefault],
           SortHashes(DOMAIN c.votes))

DProposal(p) == [kind |-> "Proposal", msg |-> p]
DSolicit(s) == [kind |-> "Solicit", msg |-> s]
DVote(v) == [kind |-> "Vote", msg |-> v]

RECURSIVE MapSeq(_, _)
MapSeq(c, ks) == IF ks = <<>> THEN <<>> ELSE <<DVote(c.votes[Head(ks)])>> \o MapSeq(c, Tail(ks))

votes_by_candidate(c, h) ==
  MapSeq(c, SortHashes({k \in DOMAIN c.votes : c.votes[k].voting_for = h}))

SummaryDiffers(ours, theirs, h) == h \notin DOMAIN theirs \/ ours[h] # theirs[h]

\* get_diff emitting the votes of a node only together with the node.
RECURSIVE EmitNodesWithNodeOnly(_, _, _, _, _)
EmitNodesWithNodeOnly(c, ours, theirs, hs, isProp) ==
  IF hs = <<>> THEN <<>>
  ELSE LET h == Head(hs)
           node == IF isProp THEN DProposal(c.valid_proposals[h])
                   ELSE DSolicit(c.vote_solicits[h])
           here == IF h \notin DOMAIN theirs
                     THEN <<node>> \o votes_by_candidate(c, h)
                     ELSE <<>>
       IN here \o EmitNodesWithNodeOnly(c, ours, theirs, Tail(hs), isProp)

\* get_diff emitting the node whenever the summaries differ at its hash.
RECURSIVE EmitNodesResend(_, _, _, _, _)
EmitNodesResend(c, ours, theirs, hs, isProp) ==
  IF hs = <<>> THEN <<>>
  ELSE LET h == Head(hs)
           node == IF isProp THEN DProposal(c.valid_proposals[h])
                   ELSE DSolicit(c.vote_solicits[h])
           here == IF SummaryDiffers(ours, theirs, h)
                     THEN <<node>> \o votes_by_candidate(c, h)
                     ELSE <<>>
       IN here \o EmitNodesResend(c, ours, theirs, Tail(hs), isProp)

RECURSIVE EmitNodes(_, _, _, _, _)
EmitNodes(c, ours, theirs, hs, isProp) ==
  IF hs = <<>> THEN <<>>
  ELSE LET h == Head(hs)
           node == IF isProp THEN DProposal(c.valid_proposals[h])
                   ELSE DSolicit(c.vote_solicits[h])
           here == IF SummaryDiffers(ours, theirs, h)
                     THEN (IF h \notin DOMAIN theirs THEN <<node>> ELSE <<>>)
                          \o votes_by_candidate(c, h)
                     ELSE <<>>
       IN here \o EmitNodes(c, ours, theirs, Tail(hs), isProp)

\* The sentinel u64::MAX of the sort key, above every tick of the model.
VoteSortKey == MaxTick + 2
\* The sort of get_diff in descending tick order.
SortKeyDescending(d) == IF d.kind = "Vote" THEN VoteSortKey ELSE MaxTick - d.msg.tick

\* The sort of get_diff with the Votes given the lowest key.
SortKeyVotesFirst(d) == IF d.kind = "Vote" THEN 0 ELSE d.msg.tick + 1

SortKey(d) == IF d.kind = "Vote" THEN VoteSortKey ELSE d.msg.tick

RECURSIVE SortByKey(_, _)
SortByKey(ds, k) ==
  IF k > VoteSortKey THEN <<>>
  ELSE SelectSeq(ds, LAMBDA d : SortKey(d) = k) \o SortByKey(ds, k + 1)

get_diff(c, their_summary) ==
  LET our_summary == summary(c)
      toret == EmitNodes(c, our_summary, their_summary,
                         SortHashes(DOMAIN c.valid_proposals), TRUE)
               \o EmitNodes(c, our_summary, their_summary,
                            SortHashes(DOMAIN c.vote_solicits), FALSE)
  IN SortByKey(toret, 0)

\* The loop of sync_core over the messages of a diff; errors are printed and dropped
\* (counted here).
RECURSIVE ApplyAllFrom(_, _, _)
ApplyAllFrom(c, ds, errs) ==
  IF ds = <<>> THEN [core |-> c, errors |-> errs]
  ELSE LET r == apply_one_diff(c, Head(ds))
       IN ApplyAllFrom(r.core, Tail(ds), IF r.res = "Ok" THEN errs ELSE errs + 1)

ApplyAll(c, ds) == ApplyAllFrom(c, ds, 0)

(***************************************************************************)
(* Local authoring                                                         *)
(***************************************************************************)
RECURSIVE InsertOwnVotes(_, _, _)
InsertOwnVotes(c, hs, my_sk) ==
  IF hs = <<>> THEN Result(c, "Unit")
  ELSE LET r == insert_vote(c, VoteNew(Nonce, Head(hs), my_sk))
       IN IF r.res # "Ok" THEN Result(c, "Panic")
          ELSE InsertOwnVotes(r.core, Tail(hs), my_sk)

\* insert_my_votes voting for every Solicit once there is a tip.
insert_my_votes_every_solicit(c, my_sk) ==
  LET tips == SeqToSet(get_lnc_tips(c))
  IN IF tips = {}
       THEN InsertOwnVotes(c, SortHashes(DOMAIN c.valid_proposals), my_sk)
       ELSE InsertOwnVotes(c, SortHashes(DOMAIN c.vote_solicits), my_sk)

insert_my_votes(c, my_sk) ==
  LET tips == SeqToSet(get_lnc_tips(c))
  IN IF tips = {}
       THEN InsertOwnVotes(c, SortHashes(DOMAIN c.valid_proposals), my_sk)
       ELSE InsertOwnVotes(c,
              SortHashes({h \in DOMAIN c.vote_solicits : c.vote_solicits[h].previous \in tips}),
              my_sk)

\* insert_my_prop_or_solicit extending the last tip instead of the first.
insert_my_prop_or_solicit_last_tip(c, t, my_sk, body) ==
  IF tick_to_leader(t) # to_public(my_sk) THEN Result(c, "Unit")
  ELSE LET tips == get_lnc_tips(c)
       IN IF tips # <<>>
            THEN Result(insert_solicit(c, SolicitNew(Nonce, t, tips[Len(tips)], my_sk)).core,
                        "Unit")
            ELSE LET r == insert_proposal(c, ProposalNew(Nonce, t, body, my_sk))
                 IN IF r.res # "Ok" THEN Result(c, "Panic") ELSE Result(r.core, "Unit")

\* The number of calls of gen_prop that insert_my_prop_or_solicit makes.
gen_prop_calls(c, t, my_sk) ==
  IF tick_to_leader(t) # to_public(my_sk) THEN 0
  ELSE IF get_lnc_tips(c) # <<>> THEN 0
  ELSE 1

insert_my_prop_or_solicit(c, t, my_sk, body) ==
  IF tick_to_leader(t) # to_public(my_sk) THEN Result(c, "Unit")
  ELSE LET tips == get_lnc_tips(c)
       IN IF tips # <<>>
            THEN Result(insert_solicit(c, SolicitNew(Nonce, t, Head(tips), my_sk)).core, "Unit")
            ELSE LET r == insert_proposal(c, ProposalNew(Nonce, t, body, my_sk))
                 IN IF r.res # "Ok" THEN Result(c, "Panic") ELSE Result(r.core, "Unit")

(***************************************************************************)
(* Spec: one Core under every call of its interface, with two keys and the *)
(* round-robin leader function of the unit test.                           *)
(***************************************************************************)
CoreKeys == {1, 2}
CoreWeights == [k \in CoreKeys |-> IF k = 1 THEN 3 ELSE 1]
RoundRobin == [t \in Ticks |-> (t % Cardinality(CoreKeys)) + 1]

\* A hash no Core holds a node for.
DanglingHash == <<"P", Nonce, 0, 0, 0>>

\* Each message is offered well-formed, with a signature that does not verify, and
\* with the nonce of another instance.
Variants == {"good", "badsig", "badnonce"}
NonceOf(x) == IF x = "badnonce" THEN Nonce + 1 ELSE Nonce
Spoil(m, x) == IF x = "badsig" THEN [m EXCEPT !.signature = BadSig] ELSE m

Proposals(keys) ==
  {Spoil(ProposalNew(NonceOf(x), t, b, s), x) :
     x \in Variants, t \in Ticks, b \in Bodies, s \in keys}

Solicits(c, keys) ==
  {Spoil(SolicitNew(NonceOf(x), t, pr, s), x) :
     x \in Variants, t \in Ticks, pr \in NodeHashes(c) \cup {DanglingHash}, s \in keys}

Votes(c, keys) ==
  {Spoil(VoteNew(NonceOf(x), h, s), x) :
     x \in Variants, h \in NodeHashes(c) \cup {DanglingHash}, s \in keys}

DiffMessages(c, keys) ==
  {DProposal(p) : p \in Proposals(keys)} \cup {DSolicit(s) : s \in Solicits(c, keys)}
  \cup {DVote(v) : v \in Votes(c, keys)}

WithinCaps(c) ==
  /\ Cardinality(NodeHashes(c)) <= MaxNodes
  /\ Cardinality(DOMAIN c.votes) <= MaxVotes

Init ==
  /\ vote_map = CoreWeights
  /\ leader = RoundRobin
  /\ cores = [i \in {1} |-> CoreNew(1)]
  /\ max_tick = [i \in {1} |-> InitMaxTick]
  /\ past = [i \in {1} |-> None]
  /\ tick = [i \in {1} |-> 0]
  /\ decision = [i \in {1} |-> None]
  /\ byz = {}
  /\ phase = "api"
  /\ ret = None

Frame == UNCHANGED <<vote_map, leader, tick, decision, byz, phase, ret>>

Returns(r) ==
  /\ WithinCaps(r.core)
  /\ cores' = [cores EXCEPT ![1] = r.core]
  /\ UNCHANGED <<max_tick, past>>
  /\ Frame

ApplyOneDiff == \E d \in DiffMessages(cores[1], CoreKeys) : Returns(apply_one_diff(cores[1], d))
InsertMyVotes == \E sk \in CoreKeys : Returns(insert_my_votes(cores[1], sk))
InsertMyPropOrSolicit ==
  \E t \in Ticks, sk \in CoreKeys, b \in Bodies :
    Returns(insert_my_prop_or_solicit(cores[1], t, sk, b))

\* set_max_tick as the driver uses it: the ceiling only advances.
SetMaxTick ==
  \E t \in Ticks :
    /\ t > max_tick[1]
    /\ max_tick' = [max_tick EXCEPT ![1] = t]
    /\ UNCHANGED <<cores, past>>
    /\ Frame

Next ==
  \/ ApplyOneDiff
  \/ InsertMyVotes
  \/ InsertMyPropOrSolicit
  \/ SetMaxTick

Spec == Init /\ [][Next]_vars

(***************************************************************************)
(* SpecDiff: two Cores of one instance, each fed well-formed messages, and *)
(* the loop body of MockConfig::sync_core run by either of them.           *)
(***************************************************************************)
DiffMaxNodes == 2   \* Proposals + Solicits per Core in SpecDiff
DiffMaxVotes == 1   \* Votes per Core in SpecDiff

MaxSyncs == 2       \* iterations of the sync_core loop in SpecDiff

DiffIds == {1, 2}

DiffCaps(c) ==
  /\ Cardinality(NodeHashes(c)) <= DiffMaxNodes
  /\ Cardinality(DOMAIN c.votes) <= DiffMaxVotes

InitDiff ==
  /\ vote_map = CoreWeights
  /\ leader = RoundRobin
  /\ cores = [i \in DiffIds |-> CoreNew(i)]
  /\ max_tick = [i \in DiffIds |-> InitMaxTick]
  /\ past = [i \in DiffIds |-> None]
  /\ tick = [i \in DiffIds |-> 0]
  /\ decision = [i \in DiffIds |-> None]
  /\ byz = {}
  /\ phase = 0
  /\ ret = None

DiffFrame == UNCHANGED <<vote_map, leader, tick, decision, byz, ret>>

\* Well-formed messages: Proposals (of the first body) and Solicits signed by the
\* leader of their tick, Votes signed by any key.
WellFormed(c) ==
  {DProposal(ProposalNew(Nonce, t, CHOOSE b \in Bodies : \A o \in Bodies : b <= o,
                         tick_to_leader(t))) : t \in Ticks}
  \cup {DSolicit(SolicitNew(Nonce, t, pr, tick_to_leader(t))) : t \in Ticks, pr \in NodeHashes(c)}
  \cup {DVote(VoteNew(Nonce, h, k)) : h \in NodeHashes(c), k \in CoreKeys}

DiffApply ==
  \E i \in DiffIds : \E d \in WellFormed(cores[i]) :
    LET r == apply_one_diff(cores[i], d) IN
      /\ r.res = "Ok"
      /\ DiffCaps(r.core)
      /\ cores' = [cores EXCEPT ![i] = r.core]
      /\ UNCHANGED <<max_tick, past, phase>>
      /\ DiffFrame

DiffSetMaxTick ==
  \E i \in DiffIds, t \in Ticks :
    /\ t > max_tick[i]
    /\ max_tick' = [max_tick EXCEPT ![i] = t]
    /\ UNCHANGED <<cores, past, phase>>
    /\ DiffFrame

\* One iteration of the loop of sync_core run by participant i, the random index
\* being j.
sync_core(i, j) ==
  LET summ == summary(cores[i])
      core2 == IF past[j] # None
                 THEN ApplyAll(cores[i], get_diff(past[j][1], summ)).core
                 ELSE cores[i]
  IN /\ cores' = [cores EXCEPT ![i] = core2]
     /\ past' = [past EXCEPT ![i] = Some(core2)]

SyncCore ==
  \E i \in DiffIds, j \in DiffIds :
    /\ phase < MaxSyncs
    /\ sync_core(i, j)
    /\ phase' = phase + 1
    /\ UNCHANGED max_tick
    /\ DiffFrame

NextDiff == DiffApply \/ DiffSetMaxTick \/ SyncCore

SpecDiff == InitDiff /\ [][NextDiff]_vars

\* The messages a Core has admitted, as diff messages.
NodeMsgs(c) ==
  {DProposal(p) : p \in Range(c.valid_proposals)} \cup {DSolicit(x) : x \in Range(c.vote_solicits)}
VoteMsgs(c) == {DVote(v) : v \in Range(c.votes)}
Admitted(c) == NodeMsgs(c) \cup VoteMsgs(c)

(***************************************************************************)
(* consensus.rs: the Decider.  Participant i holds secret key i and Core   *)
(* cores[i]; its max_tick cell is cores[i].cell.                           *)
(***************************************************************************)
RunTicks == 0..(MaxTick + 1)   \* the ticks a Decider runs

\* The closure Decider::new hands to Core::new, after the random point is drawn: the
\* keys are walked in key order, the weights summed until the sum exceeds the point.
RECURSIVE PickByWeight(_, _, _, _)
PickByWeight(weights, keys, sum, random_point) ==
  IF keys = <<>> THEN 0   \* unreachable!(): no key is returned
  ELSE LET s == sum + weights[Head(keys)]
       IN IF s > random_point THEN Head(keys)
          ELSE PickByWeight(weights, Tail(keys), s, random_point)

RECURSIVE SortNat(_)
SortNat(S) ==
  IF S = {} THEN <<>>
  ELSE LET m == CHOOSE x \in S : \A y \in S : x <= y IN <<m>> \o SortNat(S \ {m})

\* The leader schedules of an instance: the random point of a tick is the hash of
\* seed + tick reduced below total_votes, here any of the given points.
LeaderSchedules(weights, points) ==
  {[t \in RunTicks |-> PickByWeight(weights, SortNat(DOMAIN weights), 0, pt[t])] :
     pt \in [RunTicks -> points]}

\* MockConfig::generate_proposal: a body that names the participant's index (the
\* random number in the body is left out).
generate_proposal(i) == ((i - 1) % NumBodies) + 1

\* Decider::pre_tick of participant i: the Decider after the call, the value of its
\* max_tick cell and the value returned.  The own message has tick = self.tick, which
\* is within the ceiling both before and after set_max_tick(self.tick + 1)
\* (TickWithinCeiling).
pre_tick(i) ==
  LET c == cores[i]
      run == get_finalized_run(c)
      dec == IF run.tr # None THEN Some(run.tr[1].body) ELSE decision[i]
      own == IF dec # None THEN Result(c, "Unit")
             ELSE insert_my_prop_or_solicit(c, tick[i], i, generate_proposal(i))
  IN [core |-> own.core,
      tick |-> tick[i],
      decision |-> dec,
      max_tick |-> tick[i] + 1,
      ret |-> dec,
      panic |-> run.panic \/ own.res = "Panic"]

\* Decider::post_tick without the advance of self.tick.
post_tick_no_advance(i) ==
  LET c == cores[i]
      run == get_finalized_run(c)
      dec == IF run.tr # None THEN Some(run.tr[1].body) ELSE decision[i]
      own == IF dec # None THEN Result(c, "Unit") ELSE insert_my_votes(c, i)
  IN [core |-> own.core,
      tick |-> tick[i],
      decision |-> dec,
      max_tick |-> max_tick[c.cell],
      ret |-> dec,
      panic |-> run.panic \/ own.res = "Panic"]

\* Decider::post_tick of participant i.
post_tick(i) ==
  LET c == cores[i]
      run == get_finalized_run(c)
      dec == IF run.tr # None THEN Some(run.tr[1].body) ELSE decision[i]
      own == IF dec # None THEN Result(c, "Unit") ELSE insert_my_votes(c, i)
  IN [core |-> own.core,
      tick |-> IF dec # None THEN tick[i] ELSE tick[i] + 1,
      decision |-> dec,
      max_tick |-> max_tick[c.cell],
      ret |-> dec,
      panic |-> run.panic \/ own.res = "Panic"]

\* The Deciders of the set D as the calls left them (after[i] for Decider i), the
\* others as they were.
RunAll(D, after) ==
    /\ cores' = [i \in DOMAIN cores |-> IF i \in D THEN after[i].core ELSE cores[i]]
    /\ tick' = [i \in DOMAIN tick |-> IF i \in D THEN after[i].tick ELSE tick[i]]
    /\ decision' = [i \in DOMAIN decision |->
                      IF i \in D THEN after[i].decision ELSE decision[i]]
    /\ max_tick' = [i \in DOMAIN max_tick |->
                      IF \E k \in D : cores[k].cell = i
                        THEN after[CHOOSE k \in D : cores[k].cell = i].max_tick
                        ELSE max_tick[i]]
    /\ ret' = [i \in DOMAIN ret |-> IF i \in D THEN after[i].ret ELSE ret[i]]

(***************************************************************************)
(* SpecNet: two honest Deciders and one participant that is not, driven as *)
(* main_inner drives them: pre_tick of every Decider, some iterations of   *)
(* sync_core, post_tick of every Decider, some iterations of sync_core.    *)
(* The honest Deciders hold 6 of the 7 votes.  The peer of a sync_core     *)
(* iteration is the stored Core of an honest participant or the third      *)
(* participant.                                                            *)
(***************************************************************************)
NetSyncs == 1   \* iterations of sync_core after each pre_tick and post_tick in SpecNet

NetKeys == {1, 2, 3}
NetWeights == [k \in NetKeys |-> IF k = 1 THEN 5 ELSE 1]
Honest == {1, 2}
\* The random points drawn in SpecNet: the lowest and the highest, which select the
\* first and the last key.
NetPoints == {0, SumMap(NetWeights, NetKeys) - 1}
ByzKey == CHOOSE k \in NetKeys : k \notin Honest

\* What the third participant signs: a Proposal at tick 0 and Solicits extending it
\* at every later tick.
RECURSIVE ByzNode(_)
ByzNode(t) ==
  IF t = 0 THEN DProposal(ProposalNew(Nonce, 0, NumBodies, ByzKey))
  ELSE LET prev == ByzNode(t - 1)
           ph == IF prev.kind = "Proposal" THEN chash_p(prev.msg) ELSE chash_s(prev.msg)
       IN DSolicit(SolicitNew(Nonce, t, ph, ByzKey))

NodeHash(d) == IF d.kind = "Proposal" THEN chash_p(d.msg) ELSE chash_s(d.msg)

\* What the third participant answers a sync with: its own chain in tick order, then
\* the Votes for that chain that the honest Cores hold.
ByzDiff ==
  LET chain == [k \in 1..(MaxTick + 1) |-> ByzNode(k - 1)]
      hs == {NodeHash(chain[k]) : k \in 1..Len(chain)}
      seen == UNION {DOMAIN cores[i].votes : i \in DOMAIN cores}
      relayed == {h \in seen : \E i \in DOMAIN cores :
                    h \in DOMAIN cores[i].votes /\ cores[i].votes[h].voting_for \in hs}
      vote(h) == LET i == CHOOSE i \in DOMAIN cores : h \in DOMAIN cores[i].votes
                 IN DVote(cores[i].votes[h])
      sorted == SortHashes(relayed)
  IN chain \o [k \in 1..Len(sorted) |-> vote(sorted[k])]

InitNet ==
  /\ vote_map = NetWeights
  /\ leader \in LeaderSchedules(NetWeights, NetPoints)
  /\ cores = [i \in Honest |-> CoreNew(i)]
  /\ max_tick = [i \in Honest |-> InitMaxTick]
  /\ past = [i \in Honest |-> None]
  /\ tick = [i \in Honest |-> 0]
  /\ decision = [i \in Honest |-> None]
  /\ byz = NetKeys \ Honest
  /\ phase = [step |-> "pre", syncs |-> 0]
  /\ ret = [i \in Honest |-> None]

NetFrame == UNCHANGED <<vote_map, leader, byz>>

PreTick ==
  /\ phase.step = "pre"
  /\ \A i \in Honest : tick[i] \in RunTicks
  /\ RunAll(Honest, [i \in Honest |-> pre_tick(i)])
  /\ phase' = [step |-> "post", syncs |-> 0]
  /\ UNCHANGED past
  /\ NetFrame

PostTick ==
  /\ phase.step = "post"
  /\ RunAll(Honest, [i \in Honest |-> post_tick(i)])
  /\ phase' = [step |-> "pre", syncs |-> 0]
  /\ UNCHANGED past
  /\ NetFrame

\* One iteration of sync_core by participant i, the peer being honest participant j.
SyncState ==
  \E i \in Honest, j \in Honest :
    /\ phase.syncs < NetSyncs
    /\ sync_core(i, j)
    /\ phase' = [phase EXCEPT !.syncs = @ + 1]
    /\ UNCHANGED <<max_tick, tick, decision, ret>>
    /\ NetFrame

\* One iteration of sync_core by participant i, the peer being the third participant.
SyncByz ==
  \E i \in Honest :
    LET core2 == ApplyAll(cores[i], ByzDiff).core IN
      /\ phase.syncs < NetSyncs
      /\ cores' = [cores EXCEPT ![i] = core2]
      /\ past' = [past EXCEPT ![i] = Some(core2)]
      /\ phase' = [phase EXCEPT !.syncs = @ + 1]
      /\ UNCHANGED <<max_tick, tick, decision, ret>>
      /\ NetFrame

NextNet == PreTick \/ PostTick \/ SyncState \/ SyncByz

SpecNet == InitNet /\ [][NextNet]_vars

(***************************************************************************)
(* SpecSync: n honest Deciders of equal weight, n = 3 or n = 7, in         *)
(* lockstep: pre_tick of every Decider, a complete synchronization,        *)
(* post_tick of every Decider, a complete synchronization.  The leader of  *)
(* a tick is any participant; it is drawn ahead of the pre_tick that looks *)
(* it up and is 0, which is no key, before (no message with an invalid     *)
(* signature is offered, so the leader of a tick is looked up by           *)
(* insert_my_prop_or_solicit only).                                        *)
(***************************************************************************)
SyncSizes == {3, 7}
MaxRounds == 5   \* iterations of the driver loop in SpecSync

EqualWeights(n) == [k \in 1..n |-> 1]

\* The leader of tick t, for every random point below total_votes.
DrawLeader(t) ==
  \E pt \in 0..(total_votes - 1) :
    leader' = [leader EXCEPT ![t] = PickByWeight(vote_map, SortNat(DOMAIN vote_map), 0, pt)]

InitSync ==
  /\ \E n \in SyncSizes :
       /\ vote_map = EqualWeights(n)
       /\ \E pt \in 0..(n - 1) :
            leader = [t \in RunTicks |->
                        IF t = 0 THEN PickByWeight(EqualWeights(n), SortNat(1..n), 0, pt)
                        ELSE 0]
       /\ cores = [i \in 1..n |-> CoreNew(i)]
       /\ max_tick = [i \in 1..n |-> InitMaxTick]
       /\ past = [i \in 1..n |-> None]
       /\ tick = [i \in 1..n |-> 0]
       /\ decision = [i \in 1..n |-> None]
       /\ ret = [i \in 1..n |-> None]
  /\ byz = {}
  /\ phase = [step |-> "pre", round |-> 0]

\* Core i after it has applied, peer after peer, the diff of every other Core.
RECURSIVE PullAll(_, _)
PullAll(c, peers) ==
  IF peers = <<>> THEN c
  ELSE PullAll(ApplyAll(c, get_diff(cores[Head(peers)], summary(c))).core, Tail(peers))

\* The tick the Deciders that go on are at, and whether the next pre_tick looks up
\* its leader: some Decider in RunTicks has no decision and, with the Cores cs, finds
\* none.
NextTick == CHOOSE t \in {tick[i] : i \in DOMAIN tick} : \A i \in DOMAIN tick : tick[i] <= t
LeaderLookedUp(cs) ==
  /\ NextTick \in RunTicks
  /\ leader[NextTick] \notin DOMAIN vote_map
  /\ \E i \in DOMAIN cs : decision[i] = None /\ get_finalized(cs[i]) = None

LockstepPreTick ==
  /\ phase.step = "pre"
  /\ phase.round < MaxRounds
  /\ \A i \in DOMAIN cores : tick[i] \in RunTicks
  /\ RunAll(DOMAIN cores, [i \in DOMAIN cores |-> pre_tick(i)])
  /\ phase' = [step |-> "sync1", round |-> phase.round + 1]
  /\ UNCHANGED <<vote_map, leader, past, byz>>

CompleteSync ==
  /\ phase.step \in {"sync1", "sync2"}
  /\ cores' = [i \in DOMAIN cores |-> PullAll(cores[i], SortNat(DOMAIN cores \ {i}))]
  /\ phase' = [phase EXCEPT !.step = IF @ = "sync1" THEN "post" ELSE "pre"]
  /\ IF phase.step = "sync2" /\ LeaderLookedUp(cores') THEN DrawLeader(NextTick)
     ELSE UNCHANGED leader
  /\ UNCHANGED <<vote_map, max_tick, past, tick, decision, byz, ret>>

LockstepPostTick ==
  /\ phase.step = "post"
  /\ RunAll(DOMAIN cores, [i \in DOMAIN cores |-> post_tick(i)])
  /\ phase' = [phase EXCEPT !.step = "sync2"]
  /\ UNCHANGED <<vote_map, leader, past, byz>>

NextSync == LockstepPreTick \/ CompleteSync \/ LockstepPostTick

SpecSync == InitSync /\ [][NextSync]_vars

(***************************************************************************)
(* Properties of one Core, for every Core of the state.                    *)
(***************************************************************************)
Ids == DOMAIN cores
TickSourceOf(d) == <<d.msg.tick, d.msg.source>>
AllKeys == DOMAIN vote_map
NodeInputs(c) == {d \in DiffMessages(c, AllKeys) : d.kind # "Vote"}

\* C4: no two distinct admitted Proposals or Solicits of a Core share (tick, source),
\* tick_source is exactly the set of (tick, source) pairs of the admitted nodes, and
\* every Proposal or Solicit offered for a pair already in tick_source is rejected
\* and leaves the Core as it was.
NonEquivocation ==
  \A i \in Ids :
    LET c == cores[i] IN
      /\ \A m1, m2 \in NodeMsgs(c) : TickSourceOf(m1) = TickSourceOf(m2) => m1 = m2
      /\ c.tick_source = {TickSourceOf(m) : m \in NodeMsgs(c)}
      /\ \A d \in NodeInputs(c) :
           TickSourceOf(d) \in c.tick_source =>
             /\ apply_one_diff(c, d).res # "Ok"
             /\ apply_one_diff(c, d).core = c

\* A Core with two nodes, offered a well-formed node for an observed (tick, source)
\* that differs from the admitted one: only the (tick, source) guard rejects it.
NonEquivocationWitness ==
  \E i \in Ids :
    LET c == cores[i] IN
      /\ Cardinality(NodeHashes(c)) >= 2
      /\ \E d \in NodeInputs(c) :
           /\ d \notin NodeMsgs(c)
           /\ apply_one_diff(c, d).res = "Equivocation"

\* C5: every admitted Proposal, Solicit and Vote carries the Core's nonce and a
\* signature that verifies against its canonical hash under its source key.
SignatureIntegrity ==
  \A i \in Ids :
    LET c == cores[i] IN
      /\ \A p \in Range(c.valid_proposals) : p.nonce = Nonce /\ verify_sig_p(p)
      /\ \A x \in Range(c.vote_solicits) : x.nonce = Nonce /\ verify_sig_s(x)
      /\ \A v \in Range(c.votes) : v.nonce = Nonce /\ verify_sig_v(v)

\* C6: every admitted Solicit's previous and every admitted Vote's voting_for is
\* the hash of an admitted Proposal or Solicit, and the walk along previous from
\* any admitted Solicit ends at an admitted Proposal.
ParentExistence ==
  \A i \in Ids :
    LET c == cores[i] IN
      /\ \A x \in Range(c.vote_solicits) : x.previous \in NodeHashes(c)
      /\ \A v \in Range(c.votes) : v.voting_for \in NodeHashes(c)
      /\ \A h \in DOMAIN c.vote_solicits :
           /\ ~WalkBack(c, h, <<>>).panic
           /\ WalkBack(c, h, <<>>).tr # None
           /\ WalkBack(c, h, <<>>).tr[1] \in Range(c.valid_proposals)

\* A Core holding a Solicit on a Solicit on a Proposal, and a Vote for the tip.
ParentExistenceWitness ==
  \E i \in Ids :
    LET c == cores[i] IN
      \E h \in DOMAIN c.vote_solicits :
        /\ c.vote_solicits[h].previous \in DOMAIN c.vote_solicits
        /\ \E v \in Range(c.votes) : v.voting_for = h

StrictlyDecreasing(tn) == \A k \in 1..(Len(tn) - 1) : tn[k] > tn[k + 1]

\* C7: every admitted Solicit has a tick strictly greater than the tick of the node
\* its previous refers to, so the ticks met on the walk from any Solicit back to its
\* root Proposal strictly decrease.
MonotonicTick ==
  \A i \in Ids :
    LET c == cores[i] IN
      \A h \in DOMAIN c.vote_solicits :
        /\ c.vote_solicits[h].previous \in NodeHashes(c)
        /\ c.vote_solicits[h].tick > PreviousTick(c, c.vote_solicits[h].previous)
        /\ StrictlyDecreasing(WalkBack(c, h, <<>>).ticks)

\* A Core with a chain of two Solicits on a Proposal that rejects an offered Solicit
\* for its tick.
MonotonicTickWitness ==
  \E i \in Ids :
    LET c == cores[i] IN
      /\ \E h \in DOMAIN c.vote_solicits : Len(WalkBack(c, h, <<>>).ticks) = 3
      /\ \E d \in NodeInputs(c) : apply_one_diff(c, d).res = "NonMonotonicTick"

\* C8: an insert or apply_one_diff that returns an error leaves valid_proposals,
\* vote_solicits, votes and tick_source exactly as they were.
AtomicRejection ==
  \A i \in Ids :
    LET c == cores[i] IN
      \A d \in DiffMessages(c, AllKeys) :
        apply_one_diff(c, d).res # "Ok" => apply_one_diff(c, d).core = c

\* A Core holding nodes and a vote that rejects one offered message at each check.
AtomicRejectionWitness ==
  \E i \in Ids :
    LET c == cores[i]
        errs == {apply_one_diff(c, d).res : d \in DiffMessages(c, AllKeys)}
    IN /\ c.votes # EmptyMap
       /\ {"BadSignature", "BadNonce", "TickBeyondHorizon", "Equivocation",
           "DanglingParent", "NonMonotonicTick", "DanglingTarget"} \subseteq errs

(***************************************************************************)
(* Properties of two Cores of one instance: A is any Core or stored        *)
(* snapshot of the state, B any Core.                                      *)
(***************************************************************************)
Snapshots == {cores[j] : j \in Ids} \cup {past[j][1] : j \in {k \in Ids : past[k] # None}}
DiffFor(A, B) == get_diff(A, summary(B))

\* C9: offering a Core a message it has already admitted leaves the Core unchanged,
\* and applying the diff of a peer a second time yields the Core the first
\* application yielded.
IdempotentAdmission ==
  /\ \A i \in Ids : \A m \in Admitted(cores[i]) : apply_one_diff(cores[i], m).core = cores[i]
  /\ \A A \in Snapshots : \A i \in Ids :
       LET D == DiffFor(A, cores[i])
           once == ApplyAll(cores[i], D).core
       IN ApplyAll(once, D).core = once

\* After a sync_core iteration: a diff of a node and a vote whose first application
\* changes the Core and whose second application reports errors.
IdempotentAdmissionWitness ==
  /\ phase > 0
  /\ \E A \in Snapshots : \E i \in Ids :
       LET D == DiffFor(A, cores[i])
           once == ApplyAll(cores[i], D).core
       IN /\ \E k \in 1..Len(D) : D[k].kind = "Solicit"
          /\ \E k \in 1..Len(D) : D[k].kind = "Vote"
          /\ once # cores[i]
          /\ ApplyAll(once, D).errors > 0

UnionSummary(A, B, B2) ==
  /\ DOMAIN summary(B2) = DOMAIN summary(A) \cup DOMAIN summary(B)
  /\ \A h \in DOMAIN summary(B2) : VotesFor(B2, h) = VotesFor(A, h) \cup VotesFor(B, h)

TickWithinCeiling == \A i \in Ids : tick[i] <= max_tick[cores[i].cell]

HonestWeight == SumMap(vote_map, DOMAIN vote_map \ byz)
HonestMajority == 3 * HonestWeight > 2 * total_votes

\* C1: when honest Deciders hold more than two-thirds of the vote weight, any two
\* Cores on which get_finalized returns a Proposal return Proposals of the same body.
Agreement ==
  HonestMajority =>
    \A i \in Ids : \A j \in Ids :
      (get_finalized(cores[i]) # None /\ get_finalized(cores[j]) # None)
        => get_finalized(cores[i])[1].body = get_finalized(cores[j])[1].body

\* C2: once get_finalized returns Some(p) on a Core, it returns Some(p) after every
\* further step.
FinalizationPersistent ==
  [][\A i \in Ids : get_finalized(cores[i]) # None
        => get_finalized(cores'[i]) = get_finalized(cores[i])]_vars

\* C3: in SpecSync every participant has obtained a decision from pre_tick once
\* pre_tick has run ConsecutiveTicks + 1 = 4 times, whatever the leaders were: within
\* 5 ticks for n = 3 and within 10 ticks for n = 7.  Every pre_tick that looks the
\* leader of its tick up finds it drawn.
SynchronousLiveness ==
  /\ phase.round >= ConsecutiveTicks + 1 =>
       \A i \in Ids : ret[i] # None /\ decision[i] = ret[i]
  /\ (phase.step = "pre" /\ phase.round < MaxRounds) =>
       \A i \in Ids : (decision[i] = None /\ get_finalized(cores[i]) = None)
                        => (tick[i] \in RunTicks /\ leader[tick[i]] \in DOMAIN vote_map)

\* Seven participants, three different leaders, the fourth pre_tick has run and has
\* returned a decision to all.
SynchronousLivenessWitness ==
  /\ Cardinality(Ids) = 7
  /\ phase.round = ConsecutiveTicks + 1
  /\ Cardinality({leader[t] : t \in 0..(ConsecutiveTicks - 1)}) = 3
  /\ \A i \in Ids : ret[i] # None

\* The node a diff message refers to: previous of a Solicit, voting_for of a Vote.
RefersTo(d) == IF d.kind = "Solicit" THEN d.msg.previous ELSE d.msg.voting_for

DiffOrdered(D, theirs) ==
  /\ \A k \in 1..Len(D) : \A l \in (k + 1)..Len(D) :
       /\ D[k].kind = "Vote" => D[l].kind = "Vote"
       /\ (D[k].kind # "Vote" /\ D[l].kind # "Vote") => D[k].msg.tick <= D[l].msg.tick
  /\ \A k \in 1..Len(D) :
       D[k].kind # "Proposal" =>
         \/ RefersTo(D[k]) \in DOMAIN theirs
         \/ \E e \in 1..(k - 1) : D[e].kind # "Vote" /\ NodeHash(D[e]) = RefersTo(D[k])

\* C11: the sequence get_diff returns is in ascending tick order with every Vote
\* after every Proposal and Solicit, and the node each emitted Solicit or Vote refers
\* to is a key of their_summary or appears earlier in the sequence.
DiffOrderingClosure ==
  \A A \in Snapshots : \A i \in Ids :
    DiffOrdered(DiffFor(A, cores[i]), summary(cores[i]))

\* After a sync_core iteration: a diff that carries a Proposal, a Solicit on it and a
\* Vote for the Solicit, none of which the peer holds.
DiffOrderingClosureWitness ==
  /\ phase > 0
  /\ \E A \in Snapshots : \E i \in Ids :
       LET D == DiffFor(A, cores[i]) IN
         \E a, b, v \in 1..Len(D) :
           /\ D[a].kind = "Proposal" /\ D[b].kind = "Solicit" /\ D[v].kind = "Vote"
           /\ D[b].msg.previous = NodeHash(D[a])
           /\ D[v].msg.voting_for = NodeHash(D[b])

(***************************************************************************)
(* Properties of notarization, tips and finalization.                      *)
(***************************************************************************)
\* The weight of the distinct sources that have an admitted Vote for h, a source
\* absent from vote_map weighing 0.
SourceWeight(c, h) ==
  LET sources == {v.source : v \in VotesFor(c, h)}
      known == sources \cap DOMAIN vote_map
  IN SumMap(vote_map, known)

\* A key that is not in vote_map.
Outsider == CHOOSE k \in 1..(Cardinality(DOMAIN vote_map) + 1) : k \notin DOMAIN vote_map

\* C12: h is notarized exactly when the weight of the distinct sources with an
\* admitted Vote for h exceeds two-thirds of total_votes; a Core holds one Vote per
\* (source, target) and inserting a held Vote again changes nothing; the Vote of a key
\* absent from vote_map is admitted and leaves notarization as it was.
Notarization ==
  \A i \in Ids :
    LET c == cores[i] IN
      /\ \A h \in NodeHashes(c) \cup {DanglingHash} :
           is_notarized(c, h) <=> 3 * SourceWeight(c, h) > 2 * total_votes
      /\ \A v1, v2 \in Range(c.votes) :
           (v1.source = v2.source /\ v1.voting_for = v2.voting_for) => v1 = v2
      /\ \A v \in Range(c.votes) :
           insert_vote(c, v).res = "Ok" /\ insert_vote(c, v).core = c
      /\ \A h \in NodeHashes(c) :
           LET r == insert_vote(c, VoteNew(Nonce, h, Outsider)) IN
             /\ r.res = "Ok"
             /\ VotesFor(r.core, h) = VotesFor(c, h) \cup {VoteNew(Nonce, h, Outsider)}
             /\ is_notarized(r.core, h) <=> is_notarized(c, h)

\* A Core with a node notarized by one Vote and a node that a Vote of lesser weight
\* and the Vote of a key absent from vote_map leave short of notarization.
NotarizationWitness ==
  \E i \in Ids :
    LET c == cores[i] IN
      /\ \E h \in NodeHashes(c) : is_notarized(c, h) /\ Cardinality(VotesFor(c, h)) = 1
      /\ \E h \in NodeHashes(c) :
           /\ VotesFor(c, h) # {}
           /\ ~is_notarized(insert_vote(c, VoteNew(Nonce, h, Outsider)).core, h)

\* The descending tick path of a node, t.tick, parent.tick, ..., p.tick, and its root.
RECURSIVE TickPath(_, _)
TickPath(c, h) ==
  IF h \in DOMAIN c.vote_solicits
    THEN <<c.vote_solicits[h].tick>> \o TickPath(c, c.vote_solicits[h].previous)
  ELSE IF h \in DOMAIN c.valid_proposals THEN <<c.valid_proposals[h].tick>>
  ELSE <<>>

RECURSIVE RootOf(_, _)
RootOf(c, h) ==
  IF h \in DOMAIN c.vote_solicits THEN RootOf(c, c.vote_solicits[h].previous)
  ELSE c.valid_proposals[h]

Qualifies(T) == \E k \in 1..(Len(T) - 2) : T[k] = T[k + 1] + 1 /\ T[k] = T[k + 2] + 2
QualifyingTips(c) == {t \in SeqToSet(get_lnc_tips(c)) : Qualifies(TickPath(c, t))}

\* C13: get_finalized returns the root of the qualifying LNC tip with the smallest
\* hash, a tip qualifying when its descending tick path T has an index i with
\* T[i] = T[i+1] + 1 = T[i+2] + 2, and None when no tip qualifies.
FinalizationRule ==
  \A i \in Ids :
    LET c == cores[i]
        Q == QualifyingTips(c)
    IN /\ ~get_finalized_run(c).panic
       /\ get_finalized(c) =
            IF Q = {} THEN None
            ELSE Some(RootOf(c, CHOOSE t \in Q : \A u \in Q \ {t} : HashLT(t, u)))

\* A Core with two qualifying tips of different roots, and a Core with a Solicit tip
\* that does not qualify.
FinalizationRuleWitness ==
  /\ \E i \in Ids :
       \E t, u \in QualifyingTips(cores[i]) : RootOf(cores[i], t) # RootOf(cores[i], u)
  /\ \E i \in Ids :
       /\ QualifyingTips(cores[i]) = {}
       /\ \E t \in SeqToSet(get_lnc_tips(cores[i])) : t \in DOMAIN cores[i].vote_solicits

Notarized(c) == {h \in NodeHashes(c) : is_notarized(c, h)}
\* The number of Solicit hops from a node to its root Proposal.
ChainLen(c, h) == Len(TickPath(c, h)) - 1

\* C14: get_lnc_tips returns, in ascending hash order and without repetition, exactly
\* the notarized admitted hashes whose chain length is the maximum over all notarized
\* nodes; it returns the empty list exactly when no admitted node is notarized.
LncTips ==
  \A i \in Ids :
    LET c == cores[i]
        tips == get_lnc_tips(c)
    IN /\ SeqToSet(tips) =
            {h \in Notarized(c) : \A g \in Notarized(c) : ChainLen(c, g) <= ChainLen(c, h)}
       /\ \A k \in 1..(Len(tips) - 1) : HashLT(tips[k], tips[k + 1])
       /\ tips = <<>> <=> Notarized(c) = {}

\* A Core with notarized nodes of two chain lengths and a Solicit on the tip that is
\* not notarized.
LncTipsWitness ==
  \E i \in Ids :
    LET c == cores[i] IN
      /\ \E g, h \in Notarized(c) : ChainLen(c, g) < ChainLen(c, h)
      /\ \E x \in DOMAIN c.vote_solicits :
           x \notin Notarized(c) /\ c.vote_solicits[x].previous \in SeqToSet(get_lnc_tips(c))

(***************************************************************************)
(* SpecTest: the unit test normal_case. One Core with equal-weight players *)
(* and the round-robin leader; each pass of the loop offers every player's *)
(* Proposal or Solicit, then the Votes of the players the random draw      *)
(* picks, and stops when get_finalized is Some. The draws taken are those  *)
(* that pick players holding more than two-thirds of the weight.           *)
(***************************************************************************)
TestPlayers == 4
TestTicks == 100
Players == 1..TestPlayers

RECURSIVE ProposeAll(_, _, _)
ProposeAll(c, t, ps) ==
  IF ps = <<>> THEN Result(c, "Unit")
  ELSE LET r == insert_my_prop_or_solicit(c, t, Head(ps), Head(ps))
       IN IF r.res = "Panic" THEN r ELSE ProposeAll(r.core, t, Tail(ps))

RECURSIVE VoteAll(_, _)
VoteAll(c, ps) ==
  IF ps = <<>> THEN Result(c, "Unit")
  ELSE LET r == insert_my_votes(c, Head(ps))
       IN IF r.res = "Panic" THEN r ELSE VoteAll(r.core, Tail(ps))

InitTest ==
  /\ vote_map = EqualWeights(TestPlayers)
  /\ leader = [t \in 0..(TestTicks + 1) |-> (t % TestPlayers) + 1]
  /\ cores = [i \in {1} |-> CoreNew(1)]
  /\ max_tick = [i \in {1} |-> InitMaxTick]
  /\ past = [i \in {1} |-> None]
  /\ tick = [i \in {1} |-> 0]
  /\ decision = [i \in {1} |-> None]
  /\ byz = {}
  /\ phase = "loop"
  /\ ret = None

\* One pass of the loop body for a tick within the limit.
TestTick ==
  /\ phase = "loop"
  /\ tick[1] <= TestTicks
  /\ \E V \in SUBSET Players :
       /\ 3 * Cardinality(V) > 2 * TestPlayers
       /\ LET p == ProposeAll(cores[1], tick[1], SortNat(Players))
              v == VoteAll(p.core, SortNat(V))
          IN IF p.res = "Panic" \/ v.res = "Panic" \/ get_finalized_run(v.core).panic
               THEN /\ phase' = "panicked"
                    /\ UNCHANGED <<cores, tick>>
               ELSE /\ cores' = [cores EXCEPT ![1] = v.core]
                    /\ IF get_finalized(v.core) # None
                         THEN phase' = "finalized" /\ UNCHANGED tick
                         ELSE phase' = "loop" /\ tick' = [tick EXCEPT ![1] = @ + 1]
  /\ UNCHANGED <<vote_map, leader, max_tick, past, decision, byz, ret>>

\* The pass that finds tick > 100: "took too long to finalize".
TestTooLong ==
  /\ phase = "loop"
  /\ tick[1] > TestTicks
  /\ phase' = "panicked"
  /\ UNCHANGED <<vote_map, leader, cores, max_tick, past, tick, decision, byz, ret>>

NextTest == TestTick \/ TestTooLong

SpecTest == InitTest /\ [][NextTest]_vars

\* C15: in the unit test, with voters holding more than two-thirds of the weight on
\* every tick, get_finalized returns a Proposal within 100 ticks and no call panics:
\* the loop never ends in a panic.
CoreProgress == phase # "panicked"


(***************************************************************************)
(* Properties of clones and of the Decider                                 *)
(***************************************************************************)
\* max_tick() as read through a Core value.
MaxTickOf(c) == max_tick[c.cell]

DecisionStability ==
  [][\A i \in DOMAIN cores : ret[i] # None => ret'[i] = ret[i]]_vars


(***************************************************************************)
(* SpecDriver: one Decider driven by strictly alternating pre_tick and     *)
(* post_tick, as tick_to_end drives it, with any message the other         *)
(* participants can produce offered through apply_one_diff in between:     *)
(* every message of another key, and messages naming the Decider's own key *)
(* with a signature that does not verify.                                  *)
(***************************************************************************)
DriverMaxNodes == 1   \* Proposals + Solicits admitted from the others in SpecDriver
DriverMaxVotes == 1   \* Votes admitted from the others in SpecDriver

DriverPoints == {0, SumMap(CoreWeights, CoreKeys) - 1}

\* What a Core holds that its Decider did not author.
Foreign(ms, me) == {m \in ms : m.msg.source # me \/ m.msg.signature = BadSig}

DriverCaps(c, me) ==
  /\ Cardinality(Foreign(NodeMsgs(c), me)) <= DriverMaxNodes
  /\ Cardinality(Foreign(VoteMsgs(c), me)) <= DriverMaxVotes

Offered(c, me) ==
  {d \in DiffMessages(c, CoreKeys) : d.msg.source # me \/ d.msg.signature = BadSig}

InitDriver ==
  /\ vote_map = CoreWeights
  /\ leader \in LeaderSchedules(CoreWeights, DriverPoints)
  /\ \E me \in CoreKeys :
       /\ cores = [i \in {me} |-> CoreNew(me)]
       /\ max_tick = [i \in {me} |-> InitMaxTick]
       /\ past = [i \in {me} |-> None]
       /\ tick = [i \in {me} |-> 0]
       /\ decision = [i \in {me} |-> None]
       /\ ret = [i \in {me} |-> None]
  /\ byz = {}
  /\ phase = "pre"

DriverPreTick ==
  /\ phase = "pre"
  /\ \A i \in DOMAIN cores : tick[i] \in RunTicks
  /\ RunAll(DOMAIN cores, [i \in DOMAIN cores |-> pre_tick(i)])
  /\ phase' = "post"
  /\ UNCHANGED <<vote_map, leader, past, byz>>

DriverPostTick ==
  /\ phase = "post"
  /\ RunAll(DOMAIN cores, [i \in DOMAIN cores |-> post_tick(i)])
  /\ phase' = "pre"
  /\ UNCHANGED <<vote_map, leader, past, byz>>

\* sync_state applying one message; an error is printed and the Core left as it was.
DriverOffer ==
  \E i \in DOMAIN cores : \E d \in Offered(cores[i], i) :
    LET r == apply_one_diff(cores[i], d) IN
      /\ DriverCaps(r.core, i)
      /\ cores' = [cores EXCEPT ![i] = r.core]
      /\ UNCHANGED <<vote_map, leader, max_tick, past, tick, decision, byz, phase, ret>>

NextDriver == DriverPreTick \/ DriverPostTick \/ DriverOffer

SpecDriver == InitDriver /\ [][NextDriver]_vars

\* C18: for a Decider with positive total vote weight driven by strictly alternating
\* pre_tick and post_tick, with arbitrary messages offered through apply_one_diff in
\* between, no panic site is reached: the leader selection returns a key for every
\* tick, and the next call of the driver (pre_tick or post_tick) inserts the
\* Decider's own Proposal and Votes without failure and get_finalized meets no
\* dangling chain.
NoFatalPath ==
  /\ total_votes > 0
  /\ \A t \in RunTicks : leader[t] \in DOMAIN vote_map
  /\ \A i \in DOMAIN cores :
       /\ ~get_finalized_run(cores[i]).panic
       /\ (phase = "pre" /\ tick[i] \in RunTicks) => ~pre_tick(i).panic
       /\ phase = "post" => ~post_tick(i).panic

\* The Decider is about to run pre_tick for a tick it leads, holding no notarized
\* node, after it has authored a Proposal and a Vote and admitted a node of another
\* source whose signature does not verify.
NoFatalPathWitness ==
  \E i \in DOMAIN cores :
    LET c == cores[i] IN
      /\ phase = "pre" /\ tick[i] \in RunTicks /\ leader[tick[i]] = i
      /\ get_lnc_tips(c) = <<>>
      /\ \E h \in DOMAIN c.valid_proposals : c.valid_proposals[h].source = i
      /\ \E k \in DOMAIN c.votes : c.votes[k].source = i
      /\ \E m \in NodeMsgs(c) : m.msg.source # i /\ m.msg.signature = BadSig


\* The nodes on the path from h back to its root Proposal, h included.
RECURSIVE PathNodes(_, _)
PathNodes(c, h) ==
  IF h \in DOMAIN c.vote_solicits THEN {h} \cup PathNodes(c, c.vote_solicits[h].previous)
  ELSE {h}

\* C19: in every reachable Core state, for every hash returned by get_lnc_tips, each
\* node on the path from that tip back to its root Proposal is notarized in that Core.
LncAncestorsNotarized ==
  \A i \in Ids :
    \A t \in SeqToSet(get_lnc_tips(cores[i])) :
      \A h \in PathNodes(cores[i], t) : is_notarized(cores[i], h)


\* C20: in every reachable Core state, every admitted Proposal and every admitted
\* Solicit has source equal to tick_to_leader(tick) for its own tick.
LeaderOnlyAdmission ==
  \A i \in Ids :
    \A m \in NodeMsgs(cores[i]) : m.msg.source = tick_to_leader(m.msg.tick)


(***************************************************************************)
(* Properties of local authoring and voting                                *)
(***************************************************************************)
\* The tip of smallest hash.
SmallestTip(c) ==
  LET T == SeqToSet(get_lnc_tips(c)) IN CHOOSE h \in T : \A u \in T \ {h} : HashLT(h, u)

WithNode(c, kind, h, m) ==
  IF kind = "Proposal"
    THEN [c EXCEPT !.tick_source = @ \cup {<<m.tick, m.source>>},
                   !.valid_proposals = Put(@, h, m)]
    ELSE [c EXCEPT !.tick_source = @ \cup {<<m.tick, m.source>>},
                   !.vote_solicits = Put(@, h, m)]

\* C21: insert_my_prop_or_solicit(tick, sk, gen_body) leaves the Core unchanged and
\* does not call gen_body when leader(tick) is not the public key of sk; otherwise it
\* authors at most one message: with tips, a Solicit of that tick signed by sk that
\* extends the tip of smallest hash (and no other change; gen_body is not called);
\* without tips, a Proposal of that tick signed by sk with the body of the one call of
\* gen_body.  Votes are never changed.
LocalAuthoring ==
  \A i \in Ids : \A t \in Ticks, sk \in AllKeys, b \in Bodies :
    LET c == cores[i]
        r == insert_my_prop_or_solicit(c, t, sk, b)
        calls == gen_prop_calls(c, t, sk)
        s == SolicitNew(Nonce, t, SmallestTip(c), sk)
        p == ProposalNew(Nonce, t, b, sk)
    IN /\ r.core.votes = c.votes
       /\ leader[t] # to_public(sk) => r.core = c /\ calls = 0
       /\ (leader[t] = to_public(sk) /\ get_lnc_tips(c) # <<>>) =>
            /\ calls = 0
            /\ r.core \in {c, WithNode(c, "Solicit", chash_s(s), s)}
       /\ (leader[t] = to_public(sk) /\ get_lnc_tips(c) = <<>>) =>
            /\ calls = 1
            /\ r.core \in {c, WithNode(c, "Proposal", chash_p(p), p)}
            /\ r.res # "Panic" => r.core # c

\* A Core with two tips where the leader of a tick has authored a Solicit on the tip
\* of smallest hash.
LocalAuthoringWitness ==
  \E i \in Ids :
    LET c == cores[i] IN
      \E h \in DOMAIN c.vote_solicits :
        LET s == c.vote_solicits[h]
            before == [c EXCEPT !.vote_solicits = EmptyMap,
                                !.tick_source = @ \ {<<s.tick, s.source>>}]
        IN /\ DOMAIN c.vote_solicits = {h}
           /\ s.source = leader[s.tick]
           /\ Len(get_lnc_tips(before)) = 2
           /\ s.previous = SmallestTip(before)
           /\ insert_my_prop_or_solicit(before, s.tick, s.source, 1).core = c

\* The nodes insert_my_votes is to vote for: every Proposal when there is no tip,
\* every Solicit on a tip otherwise.
VoteTargets(c) ==
  LET S == SeqToSet(get_lnc_tips(c))
  IN IF S = {} THEN DOMAIN c.valid_proposals
     ELSE {h \in DOMAIN c.vote_solicits : c.vote_solicits[h].previous \in S}

\* C22: insert_my_votes(sk) adds the Votes of sk for exactly every admitted Proposal
\* when get_lnc_tips, computed before the call, is empty, and otherwise for exactly
\* every admitted Solicit whose previous is one of those tips; it adds no other Vote,
\* drops none, and does not change valid_proposals, vote_solicits or tick_source.
LocalVoting ==
  \A i \in Ids : \A sk \in AllKeys :
    LET c == cores[i]
        r == insert_my_votes(c, sk)
        own == {VoteNew(Nonce, h, sk) : h \in VoteTargets(c)}
    IN /\ r.res = "Unit"
       /\ r.core.valid_proposals = c.valid_proposals
       /\ r.core.vote_solicits = c.vote_solicits
       /\ r.core.tick_source = c.tick_source
       /\ DOMAIN r.core.votes = DOMAIN c.votes \cup {chash_v(v) : v \in own}
       /\ \A k \in DOMAIN c.votes : r.core.votes[k] = c.votes[k]
       /\ \A v \in own : r.core.votes[chash_v(v)] = v

\* A Core with a tip, a Solicit on the tip and a Solicit that is not on a tip, where
\* a key has voted by insert_my_votes: it holds the key's Vote for the first Solicit
\* and none for the second.
LocalVotingWitness ==
  \E i \in Ids : \E k \in DOMAIN cores[i].votes :
    LET c == cores[i]
        v == c.votes[k]
        before == [c EXCEPT !.votes = [x \in DOMAIN c.votes \ {k} |-> c.votes[x]]]
    IN /\ get_lnc_tips(before) # <<>>
       /\ VoteTargets(before) = {v.voting_for}
       /\ insert_my_votes(before, v.source).core = c
       /\ \E h \in DOMAIN c.vote_solicits : h \notin VoteTargets(before)


(***************************************************************************)
(* Properties of the tick horizon                                          *)
(***************************************************************************)
HorizonState ==
  \A i \in Ids :
    LET c == cores[i] IN
      /\ MaxTickOf(c) \in {tick[i], tick[i] + 1}
      /\ \A m \in NodeMsgs(c) : m.msg.tick <= tick[i] + 1
      /\ \A d \in Offered(c, i) :
           (d.kind # "Vote" /\ apply_one_diff(c, d).res = "Ok") => d.msg.tick <= MaxTickOf(c)

HorizonStep ==
  \A i \in Ids :
    /\ MaxTickOf(cores[i])' >= MaxTickOf(cores[i])
    /\ \A m \in NodeMsgs(cores[i])' \ NodeMsgs(cores[i]) : m.msg.tick <= MaxTickOf(cores[i])'

\* C23: a Proposal or Solicit is admitted only if its tick is at most max_tick at the
\* time of admission; under a Decider max_tick never decreases and always equals the
\* Decider's tick or tick + 1, so a Decider at local tick t never holds a Proposal or
\* Solicit with tick greater than t + 1.
TickHorizon == [](HorizonState) /\ [][HorizonStep]_vars

\* A Decider holding a node of another participant whose tick equals max_tick and its
\* own tick + 1, while a message of the next tick is rejected as beyond the horizon.
TickHorizonWitness ==
  \E i \in Ids :
    LET c == cores[i] IN
      /\ \E m \in Foreign(NodeMsgs(c), i) :
           m.msg.tick = MaxTickOf(c) /\ m.msg.tick = tick[i] + 1
      /\ \E d \in Offered(c, i) : apply_one_diff(c, d).res = "TickBeyondHorizon"


(***************************************************************************)
(* Properties of summary and get_diff                                      *)
(***************************************************************************)
VoteHashesFor(c, h) == {k \in DOMAIN c.votes : c.votes[k].voting_for = h}

\* C24: in every reachable Core state the key set of summary() is exactly the set of
\* admitted Proposal and Solicit hashes, and the value at each key is the XOR of the
\* hashes of all admitted Votes targeting that node (each once; the default value
\* when there are none); a Core with no admitted Proposal has an empty summary.
SummaryContents ==
  \A i \in Ids :
    LET c == cores[i]
        s == summary_run(c)
    IN /\ DOMAIN s = NodeHashes(c)
       /\ \A h \in DOMAIN s : s[h] = VoteHashesFor(c, h)
       /\ \A h \in DOMAIN s : VoteHashesFor(c, h) = {} => s[h] = HashValDefault
       /\ DOMAIN c.valid_proposals = {} => s = EmptyMap
       /\ s = summary(c)

\* A Core holding a node with two Votes and a node with none.
SummaryContentsWitness ==
  \E i \in Ids :
    LET c == cores[i] IN
      /\ \E h \in NodeHashes(c) : Cardinality(VoteHashesFor(c, h)) = 2
      /\ \E h \in NodeHashes(c) : VoteHashesFor(c, h) = {}


\* The summaries a peer can send: those of the Cores and stored clones, and the
\* summary of a Core that holds nothing.
PeerSummaries == {summary(B) : B \in Snapshots} \cup {EmptyMap}

NodeOf(c, h) ==
  IF h \in DOMAIN c.valid_proposals THEN DProposal(c.valid_proposals[h])
  ELSE DSolicit(c.vote_solicits[h])

\* C25: get_diff(their_summary) emits an admitted Proposal or Solicit with hash h
\* exactly when h is not a key of their_summary, and emits the local Votes targeting
\* h, all of them, exactly when the local summary value at h differs from
\* their_summary at h, absence counting as different; nothing is emitted twice, and
\* C.get_diff(C.summary()) is empty for every Core C.
DiffSelection ==
  \A A \in Snapshots :
    /\ get_diff(A, summary_run(A)) = <<>>
    /\ \A theirs \in PeerSummaries :
         LET D == get_diff(A, theirs)
             differs == {h \in NodeHashes(A) :
                           h \notin DOMAIN theirs \/ theirs[h] # VoteHashesFor(A, h)}
         IN /\ {D[k] : k \in 1..Len(D)} =
                 {NodeOf(A, h) : h \in NodeHashes(A) \ DOMAIN theirs}
                 \cup {DVote(A.votes[k]) : k \in UNION {VoteHashesFor(A, h) : h \in differs}}
            /\ Len(D) = Cardinality({D[k] : k \in 1..Len(D)})

\* After a sync_core iteration: a diff that carries the Votes of a node the peer
\* holds with another value, without the node, and a node the peer does not hold.
DiffSelectionWitness ==
  /\ phase > 0
  /\ \E A \in Snapshots : \E i \in Ids :
       LET theirs == summary(cores[i])
           D == get_diff(A, theirs)
       IN /\ \E k \in 1..Len(D) :
               D[k].kind = "Vote" /\ D[k].msg.voting_for \in DOMAIN theirs
          /\ \E k \in 1..Len(D) : D[k].kind # "Vote"
          /\ \E h \in NodeHashes(A) : h \in DOMAIN theirs /\ theirs[h] = VoteHashesFor(A, h)


(***************************************************************************)
(* Properties of the order of the checks of insert_solicit                 *)
(***************************************************************************)
\* Whether a Solicit fails the check that reports the given error.
FailsCheck(c, s, err) ==
  CASE err = "BadSignature" -> ~verify_sig_s(s) /\ leader[s.tick] = s.source
    [] err = "BadNonce" -> s.nonce # Nonce
    [] err = "TickBeyondHorizon" -> s.tick > MaxTickOf(c)
    [] err = "DanglingParent" -> s.previous \notin NodeHashes(c)
    [] err = "NonMonotonicTick" ->
         s.previous \in NodeHashes(c) /\ s.tick <= PreviousTick(c, s.previous)
    [] err = "Equivocation" -> <<s.tick, s.source>> \in c.tick_source

RECURSIVE FirstFailing(_, _, _)
FirstFailing(c, s, order) ==
  IF order = <<>> THEN "Ok"
  ELSE IF FailsCheck(c, s, Head(order)) THEN Head(order)
  ELSE FirstFailing(c, s, Tail(order))

ClaimedOrder ==
  <<"BadNonce", "BadSignature", "DanglingParent", "NonMonotonicTick", "TickBeyondHorizon",
    "Equivocation">>

CodedOrder ==
  <<"BadSignature", "BadNonce", "TickBeyondHorizon", "DanglingParent", "NonMonotonicTick",
    "Equivocation">>

====
